---------------------------- MODULE Spec2Model ----------------------------
(***************************************************************************)
(* A model of the CDCL SAT solver of src/CDCL/cdcl_implementation.c:       *)
(* parse_dimacs, propagate, decide, analyze, backtrack and the search loop *)
(* of solve().  One action is one operation of main()/solve(); the         *)
(* functions the loop calls are operators computed the way the code        *)
(* computes them.                                                          *)
(*                                                                         *)
(* Clause indices, trail indices and reason values are 0-based as in the   *)
(* C code; a TLA+ sequence s holds C's s[i] at s[i + 1].                   *)
(***************************************************************************)
EXTENDS Integers, Sequences, FiniteSets

(***************************************************************************)
(* Bounds of the model.                                                    *)
(***************************************************************************)
\* Variables of the exhaustively enumerated inputs ("p cnf NumVars ...").
NumVars == 2
\* Clause lines of an enumerated input.
MaxClauses == 3
\* Calls of analyze() in one run; no run of the model reaches it (CapNotReached).
MaxConflicts == 12

(***************************************************************************)
(* Program constants.                                                      *)
(***************************************************************************)
\* #define MAX_LIT_BUF 256.  The literal buffers of parse_dimacs and analyze
\* hold MAX_LIT_BUF literals and silently drop the rest.  The source admits
\* num_vars up to MAX_VARS = 500000 > MAX_LIT_BUF, so clauses longer than the
\* buffer are inputs of the program.  The model scales the buffer down with
\* its variable count (6 variables at most) so that a clause longer than the
\* buffer exists in it: the code is modelled with its buffer size as written
\* here, and every behaviour reported with 3 has been reproduced on the
\* compiled source with 256.
MAX_LIT_BUF == 3
SAT == 10
UNSAT == 20
UNASSIGNED == -1

(***************************************************************************)
(* Let(e, LAMBDA v : body) is body with v the value of e.  TLC passes the  *)
(* arguments of an operator unevaluated and, where it evaluates ENABLED,   *)
(* evaluates them again at every use; the loops below hand their state on  *)
(* through Let so that each iteration is computed once.                    *)
(***************************************************************************)
Let(e, F(_)) == CHOOSE r \in {F(v) : v \in {e}} : TRUE

(***************************************************************************)
(* Utility (lines 75-82).                                                  *)
(***************************************************************************)
absval(x) == IF x > 0 THEN x ELSE -x

\* lit_value: 1, 0 or UNASSIGNED; `!val` of C is 1 - val on {0, 1}.
lit_value(asg, lit) ==
    LET val == asg[absval(lit)] IN
    IF val = UNASSIGNED THEN UNASSIGNED
    ELSE IF lit > 0 THEN val ELSE 1 - val

(***************************************************************************)
(* Inputs: a DIMACS file is its declared variable count and its clause     *)
(* lines; a line is the sequence of literals before its terminating 0.     *)
(***************************************************************************)
Lits(n) == {l \in (-n)..n : l # 0}

\* Lines of the enumerated inputs: the empty line, the unit lines and the
\* two-literal lines, a literal repeated (x x) or complemented (x -x)
\* included.  The order of the literals within a clause does not reach the
\* solver's state (propagate and analyze read a clause as a whole), so a
\* line lists its literals in ascending order.
Lines == {<<>>} \cup {<<a>> : a \in Lits(NumVars)}
                \cup {p \in {<<a, b>> : a, b \in Lits(NumVars)} : p[1] <= p[2]}

\* An order on lines, shorter lines first.
LineCode(l) ==
    IF Len(l) = 0 THEN 0
    ELSE IF Len(l) = 1 THEN l[1] + NumVars + 1
    ELSE (l[1] + NumVars + 1) * (2 * NumVars + 2) + l[2] + NumVars + 1

\* The sequences of at most k distinct lines in ascending order.
RECURSIVE Ascending(_)
Ascending(k) ==
    IF k = 0 THEN {<<>>}
    ELSE LET shorter == Ascending(k - 1) IN
         shorter \cup
         UNION {{Append(s, x) : x \in {y \in Lines : k = 1 \/ LineCode(s[k - 1]) < LineCode(y)}}
                : s \in {t \in shorter : Len(t) = k - 1}}

Reverse(s) == [i \in 1..Len(s) |-> s[Len(s) + 1 - i]]

\* Every set of at most MaxClauses lines, in ascending and in descending
\* order (the order of the clauses decides which unit propagates first and
\* which conflict is found).
EnumeratedInputs ==
    {[nv |-> NumVars, lines |-> ls] : ls \in Ascending(MaxClauses)}
    \cup {[nv |-> NumVars, lines |-> Reverse(ls)] : ls \in Ascending(MaxClauses)}

\* Scenario 4 of the specification: pigeonhole PHP(3,2), pigeon i in hole h
\* is variable 2(i-1)+h.
PHP32 ==
    [nv |-> 6,
     lines |-> << <<1, 2>>, <<3, 4>>, <<5, 6>>,
                  <<-1, -3>>, <<-1, -5>>, <<-3, -5>>,
                  <<-2, -4>>, <<-2, -6>>, <<-4, -6>> >>]

\* Scenario 6: 2-colouring of a triangle.
Triangle ==
    [nv |-> 3,
     lines |-> << <<1, 2>>, <<-1, -2>>, <<2, 3>>, <<-2, -3>>,
                  <<1, 3>>, <<-1, -3>> >>]

\* Scenario 3.
Scenario3 == [nv |-> 3, lines |-> << <<1, 2>>, <<-1, 3>>, <<-2, -3>> >>]

\* All four binary clauses over two variables: UNSAT after one learned clause.
AllBinary ==
    [nv |-> 2, lines |-> << <<1, 2>>, <<1, -2>>, <<-1, 2>>, <<-1, -2>> >>]

\* A clause line longer than the literal buffer (satisfiable by 4 = True).
LongLine ==
    [nv |-> 4, lines |-> << <<1, 2, 3, 4>>, <<-1>>, <<-2>>, <<-3>> >>]

\* A conflict whose final marked set {1,2,3,4} is larger than the buffer;
\* 1, 2, 3 are decisions of levels 1..3, 4 the decision of level 4.
WideConflict ==
    [nv |-> 6, lines |-> << <<-4, -2, 5>>, <<-4, -1, 6>>, <<-5, -6, -3>> >>]

\* The same conflict with 1, 2, 3 forced at level 0 by unit clauses
\* (satisfiable by 1 = 2 = 3 = True, 4 = False).
WideConflictRoot ==
    [nv |-> 6,
     lines |-> << <<1>>, <<2>>, <<3>>,
                  <<-4, -2, 5>>, <<-4, -1, 6>>, <<-5, -6, -3>> >>]

\* A marked set {1,2,4,6} whose dropped variable 6 is the one of the highest
\* level below the conflict level: 1, 2 are of level 1, 3, 6 of level 2 and
\* 4, 5, 7 of level 3.
WideConflictHigh ==
    [nv |-> 7,
     lines |-> << <<-1, 2>>, <<-3, 6>>, <<-4, -1, 5>>, <<-4, -2, 7>>,
                  <<-5, -7, -6>> >>]

\* A marked set {1,2,3,4,5} at level 5 (1..5 are the decisions of levels
\* 1..5): the variables dropped from the learned clause are those of the
\* conflict level and of the level returned.
WideConflictDeep ==
    [nv |-> 8,
     lines |-> << <<-5, -1, 6>>, <<-5, -2, 7>>, <<-6, -3, 8>>,
                  <<-7, -8, -4>> >>]

\* A backjump over a level: 1 is the decision of level 1 (2 follows), 3 of
\* level 2, 4 of level 3; the conflict of level 3 does not involve level 2.
Backjump ==
    [nv |-> 5, lines |-> << <<-1, 2>>, <<-4, -1, 5>>, <<-4, -1, -5>> >>]

NamedInputs ==
    {PHP32, Triangle, Scenario3, AllBinary, LongLine, WideConflict,
     WideConflictRoot, WideConflictHigh, WideConflictDeep, Backjump}

Inputs == EnumeratedInputs \cup NamedInputs

(***************************************************************************)
(* parse_dimacs (lines 289-344), clause lines only: comment lines do not   *)
(* touch the solver and the problem line sets num_vars and the arrays.     *)
(***************************************************************************)
\* Lines 334-341: the literals of a line go to lits[] while count < MAX_LIT_BUF.
parse_line(line) ==
    IF Len(line) <= MAX_LIT_BUF THEN line ELSE SubSeq(line, 1, MAX_LIT_BUF)

\* add_clause (lines 88-100): the literals are copied to the end of the store.
add_clause(cls, lits) == Append(cls, lits)

\* Line 342: a line is added only `if (count > 0)`.
RECURSIVE parse_lines(_, _)
parse_lines(lines, cls) ==
    IF lines = <<>> THEN cls
    ELSE LET lits == parse_line(Head(lines)) IN
         Let(IF Len(lits) > 0 THEN add_clause(cls, lits) ELSE cls,
             LAMBDA cls1 : parse_lines(Tail(lines), cls1))

parse_dimacs(in) == parse_lines(in.lines, <<>>)

VARIABLES
    input,       \* the file given to main()
    pc,          \* position in main()/solve()
    num_vars,    \* solver.num_vars
    clauses,     \* solver.clauses[0 .. num_clauses-1]
    assignment,  \* solver.assignment[0 .. num_vars]
    level_of,    \* solver.level_of[0 .. num_vars]
    reason,      \* solver.reason[0 .. num_vars]
    trail,       \* solver.trail[0 .. trail_top-1]
    level,       \* solver.level
    conflict,    \* solve(): int conflict
    bt,          \* solve(): int bt
    result,      \* solve()'s return value, 0 before it returns
    hist         \* observation only: what the operations did so far

vars == <<input, pc, num_vars, clauses, assignment, level_of, reason, trail,
          level, conflict, bt, result, hist>>

num_clauses == Len(clauses)
trail_top == Len(trail)

\* The assignment state as one value, for the operators below.
State == [assignment |-> assignment, level_of |-> level_of,
          reason |-> reason, trail |-> trail]


(***************************************************************************)
(* assign (lines 106-112).                                                 *)
(***************************************************************************)
assign(s, lit, lvl, reason_clause) ==
    LET var == absval(lit) IN
    [assignment |-> [s.assignment EXCEPT ![var] = IF lit > 0 THEN 1 ELSE 0],
     level_of   |-> [s.level_of EXCEPT ![var] = lvl],
     reason     |-> [s.reason EXCEPT ![var] = reason_clause],
     trail      |-> Append(s.trail, lit)]

(***************************************************************************)
(* propagate (lines 119-142).                                              *)
(***************************************************************************)
\* The loop of lines 128-132 with `unassigned = 1` for `unassigned++`: a
\* clause with several Unassigned literals is taken for a unit clause.
RECURSIVE clause_scan_flag(_, _, _, _, _)
clause_scan_flag(asg, c, j, unassigned, last_lit) ==
    IF j >= Len(c)
    THEN [satisfied |-> FALSE, unassigned |-> unassigned, last_lit |-> last_lit]
    ELSE LET val == lit_value(asg, c[j + 1]) IN
         IF val = 1
         THEN [satisfied |-> TRUE, unassigned |-> unassigned, last_lit |-> last_lit]
         ELSE IF val = UNASSIGNED
         THEN clause_scan_flag(asg, c, j + 1, 1, c[j + 1])
         ELSE clause_scan_flag(asg, c, j + 1, unassigned, last_lit)

\* The loop over the literals of one clause (lines 128-132), from position j:
\* it stops at the first True literal, and counts the Unassigned positions,
\* keeping the last one.
RECURSIVE clause_scan(_, _, _, _, _)
clause_scan(asg, c, j, unassigned, last_lit) ==
    IF j >= Len(c)
    THEN [satisfied |-> FALSE, unassigned |-> unassigned, last_lit |-> last_lit]
    ELSE LET val == lit_value(asg, c[j + 1]) IN
         IF val = 1
         THEN [satisfied |-> TRUE, unassigned |-> unassigned, last_lit |-> last_lit]
         ELSE IF val = UNASSIGNED
         THEN clause_scan(asg, c, j + 1, unassigned + 1, c[j + 1])
         ELSE clause_scan(asg, c, j + 1, unassigned, last_lit)

\* The sweeps (lines 121-140) from clause i of the current sweep; `changed`
\* is the flag of line 120.  Returns the state and the value propagate returns.
RECURSIVE propagate_from(_, _, _, _, _)
propagate_from(cls, s, lvl, i, changed) ==
    IF i >= Len(cls)
    THEN IF changed THEN propagate_from(cls, s, lvl, 0, FALSE)
         ELSE [state |-> s, ret |-> -1]
    ELSE Let(clause_scan(s.assignment, cls[i + 1], 0, 0, 0), LAMBDA r :
         IF r.satisfied THEN propagate_from(cls, s, lvl, i + 1, changed)
         ELSE IF r.unassigned = 0 THEN [state |-> s, ret |-> i]
         ELSE IF r.unassigned = 1
         THEN Let(assign(s, r.last_lit, lvl, i),
                  LAMBDA s1 : propagate_from(cls, s1, lvl, i + 1, TRUE))
         ELSE propagate_from(cls, s, lvl, i + 1, changed))

\* propagate without the `while (changed)` loop: one sweep only.
RECURSIVE one_sweep_from(_, _, _, _)
one_sweep_from(cls, s, lvl, i) ==
    IF i >= Len(cls) THEN [state |-> s, ret |-> -1]
    ELSE LET r == clause_scan(s.assignment, cls[i + 1], 0, 0, 0) IN
         IF r.satisfied THEN one_sweep_from(cls, s, lvl, i + 1)
         ELSE IF r.unassigned = 0 THEN [state |-> s, ret |-> i]
         ELSE IF r.unassigned = 1
         THEN one_sweep_from(cls, assign(s, r.last_lit, lvl, i), lvl, i + 1)
         ELSE one_sweep_from(cls, s, lvl, i + 1)

propagate_one_sweep(cls, s, lvl) == one_sweep_from(cls, s, lvl, 0)

\* propagate without line 134: a falsified clause is passed over.
RECURSIVE blind_from(_, _, _, _, _)
blind_from(cls, s, lvl, i, changed) ==
    IF i >= Len(cls)
    THEN IF changed THEN blind_from(cls, s, lvl, 0, FALSE)
         ELSE [state |-> s, ret |-> -1]
    ELSE LET r == clause_scan(s.assignment, cls[i + 1], 0, 0, 0) IN
         IF ~r.satisfied /\ r.unassigned = 1
         THEN blind_from(cls, assign(s, r.last_lit, lvl, i), lvl, i + 1, TRUE)
         ELSE blind_from(cls, s, lvl, i + 1, changed)

propagate_no_conflict(cls, s, lvl) == blind_from(cls, s, lvl, 0, FALSE)

propagate(cls, s, lvl) == propagate_from(cls, s, lvl, 0, FALSE)

(***************************************************************************)
(* decide (lines 148-153): the first unassigned variable, or 0.            *)
(***************************************************************************)
\* decide with `i < solver.num_vars` as its loop bound.
decide_short(nv, asg) ==
    LET free == {i \in 1..(nv - 1) : asg[i] = UNASSIGNED} IN
    IF free = {} THEN 0 ELSE CHOOSE i \in free : \A k \in free : i <= k

decide(nv, asg) ==
    LET free == {i \in 1..nv : asg[i] = UNASSIGNED} IN
    IF free = {} THEN 0 ELSE CHOOSE i \in free : \A k \in free : i <= k

(***************************************************************************)
(* backtrack (lines 159-170), the assignment state; the caller's level is  *)
(* set by the action.                                                      *)
(***************************************************************************)
\* backtrack without line 164 (`assignment[var] = UNASSIGNED`).
RECURSIVE backtrack_keep_value(_, _)
backtrack_keep_value(s, lvl) ==
    IF Len(s.trail) = 0 THEN s
    ELSE LET var == absval(s.trail[Len(s.trail)]) IN
         IF s.level_of[var] <= lvl THEN s
         ELSE backtrack_keep_value(
                  [assignment |-> s.assignment,
                   level_of   |-> [s.level_of EXCEPT ![var] = 0],
                   reason     |-> [s.reason EXCEPT ![var] = -1],
                   trail      |-> SubSeq(s.trail, 1, Len(s.trail) - 1)], lvl)

\* backtrack with `if` for `while`: at most one entry is popped.
backtrack_one_pop(s, lvl) ==
    IF Len(s.trail) = 0 THEN s
    ELSE LET var == absval(s.trail[Len(s.trail)]) IN
         IF s.level_of[var] <= lvl THEN s
         ELSE [assignment |-> [s.assignment EXCEPT ![var] = UNASSIGNED],
               level_of   |-> [s.level_of EXCEPT ![var] = 0],
               reason     |-> [s.reason EXCEPT ![var] = -1],
               trail      |-> SubSeq(s.trail, 1, Len(s.trail) - 1)]

\* backtrack without line 166 (`level_of[var] = 0`).
RECURSIVE backtrack_keep_level_of(_, _)
backtrack_keep_level_of(s, lvl) ==
    IF Len(s.trail) = 0 THEN s
    ELSE LET var == absval(s.trail[Len(s.trail)]) IN
         IF s.level_of[var] <= lvl THEN s
         ELSE backtrack_keep_level_of(
                  [assignment |-> [s.assignment EXCEPT ![var] = UNASSIGNED],
                   level_of   |-> s.level_of,
                   reason     |-> [s.reason EXCEPT ![var] = -1],
                   trail      |-> SubSeq(s.trail, 1, Len(s.trail) - 1)], lvl)

RECURSIVE backtrack(_, _)
backtrack(s, lvl) ==
    IF Len(s.trail) = 0 THEN s
    ELSE LET lit == s.trail[Len(s.trail)]
             var == absval(lit)
         IN  IF s.level_of[var] <= lvl THEN s
             ELSE Let([assignment |-> [s.assignment EXCEPT ![var] = UNASSIGNED],
                       level_of   |-> [s.level_of EXCEPT ![var] = 0],
                       reason     |-> [s.reason EXCEPT ![var] = -1],
                       trail      |-> SubSeq(s.trail, 1, Len(s.trail) - 1)],
                      LAMBDA s1 : backtrack(s1, lvl))

(***************************************************************************)
(* analyze (lines 177-239).  gen_of[v] == cur_gen is `v \in a.gen`: cur_gen *)
(* is new in every call, so no variable has it on entry.  seen[v] is read  *)
(* only where gen_of[v] == cur_gen, where it is `v \in a.seen`.            *)
(***************************************************************************)
\* Lines 194-200 and 217-223: mark the variables of clause c from position i.
\* The marking loop without `if (solver.level_of[v] == solver.level)`: every
\* newly marked variable is counted.
RECURSIVE mark_clause_count_all(_, _, _, _, _)
mark_clause_count_all(a, c, i, lvlof, lvl) ==
    IF i >= Len(c) THEN a
    ELSE LET v == absval(c[i + 1]) IN
         IF v \notin a.gen
         THEN mark_clause_count_all(
                  [a EXCEPT !.gen = @ \cup {v}, !.seen = @ \cup {v},
                            !.counter = @ + 1], c, i + 1, lvlof, lvl)
         ELSE mark_clause_count_all(a, c, i + 1, lvlof, lvl)

RECURSIVE mark_clause(_, _, _, _, _)
mark_clause(a, c, i, lvlof, lvl) ==
    IF i >= Len(c) THEN a
    ELSE LET v == absval(c[i + 1]) IN
         IF v \notin a.gen
         THEN Let([a EXCEPT !.gen = @ \cup {v}, !.seen = @ \cup {v},
                            !.counter = IF lvlof[v] = lvl THEN @ + 1 ELSE @],
                  LAMBDA a1 : mark_clause(a1, c, i + 1, lvlof, lvl))
         ELSE mark_clause(a, c, i + 1, lvlof, lvl)

\* Lines 204-206: walk the trail back from idx to a marked variable.  The
\* code reads trail[idx] without a lower bound on idx; a scan that finds no
\* marked variable ends here at idx = -1, where the code would read below
\* trail[0].
RECURSIVE scan_back(_, _, _)
scan_back(tr, seen, idx) ==
    IF idx < 0 THEN idx
    ELSE IF absval(tr[idx + 1]) \notin seen THEN scan_back(tr, seen, idx - 1)
    ELSE idx

\* The marked variables of the conflict level.
marked_at(seen, lvlof, lvl) == {w \in seen : lvlof[w] = lvl}

\* Lines 203-224.  a.steps records, for observation, each variable the loop
\* selects: its trail index and level, and the counter and the marked
\* variables of the conflict level at the end of the iteration.  A scan
\* that leaves the trail (idx < 0) is recorded as a step of variable 0 and
\* ends the loop: what the code reads from there on is not defined.
RECURSIVE resolve_loop(_, _, _, _)
resolve_loop(a, cls, s, lvl) ==
    IF a.counter <= 1 THEN a
    ELSE Let(scan_back(s.trail, a.seen, a.idx), LAMBDA idx :
         IF idx < 0
         THEN [a EXCEPT !.idx = idx,
                        !.steps = Append(@, [v |-> 0, idx |-> idx, lvl |-> -1,
                                             counter |-> a.counter,
                                             marked |-> Cardinality(
                                                 marked_at(a.seen, s.level_of, lvl))])]
         ELSE
         LET v  == absval(s.trail[idx + 1])
             rc == s.reason[v]
         IN  Let([a EXCEPT !.idx = idx - 1, !.seen = @ \ {v},
                           !.counter = @ - 1],
                 LAMBDA a1 :
                   Let(IF rc < 0 THEN a1
                       ELSE mark_clause(a1, cls[rc + 1], 0, s.level_of, lvl),
                       LAMBDA a2 :
                   Let([a2 EXCEPT !.steps =
                           Append(@, [v |-> v, idx |-> idx,
                                      lvl |-> s.level_of[v],
                                      counter |-> a2.counter,
                                      marked |-> Cardinality(
                                          marked_at(a2.seen, s.level_of, lvl))])],
                       LAMBDA a3 : resolve_loop(a3, cls, s, lvl)))))

\* Lines 226-235: the learned literals, in variable order, at most MAX_LIT_BUF.
RECURSIVE build_learned(_, _, _, _, _)
build_learned(seen, asg, nv, v, learned) ==
    IF v > nv THEN learned
    ELSE IF v \notin seen THEN build_learned(seen, asg, nv, v + 1, learned)
    ELSE LET lit == IF asg[v] = 1 THEN -v ELSE v IN
         Let(IF Len(learned) < MAX_LIT_BUF THEN Append(learned, lit) ELSE learned,
             LAMBDA l1 : build_learned(seen, asg, nv, v + 1, l1))

\* Lines 232-234 without `level_of[v] != solver.level`.
backtrack_level_any(seen, lvlof, lvl) ==
    LET all == {lvlof[v] : v \in {w \in seen : lvlof[w] > 0}}
    IN  IF all = {} THEN 0 ELSE CHOOSE m \in all : \A l \in all : l <= m

\* Lines 232-234: the highest level below the current one among the marked.
backtrack_level(seen, lvlof, lvl) ==
    LET below == {lvlof[v] : v \in {w \in seen : lvlof[w] # lvl /\ lvlof[w] > 0}}
    IN  IF below = {} THEN 0 ELSE CHOOSE m \in below : \A l \in below : l <= m

\* The whole call: the learned clause, the returned level and, for
\* observation, the final marked set, counter and resolution steps.
analyze(cls, s, nv, lvl, conflict_clause) ==
    LET a0 == [gen |-> {}, seen |-> {}, counter |-> 0,
               idx |-> Len(s.trail) - 1, steps |-> <<>>]
    IN  Let(mark_clause(a0, cls[conflict_clause + 1], 0, s.level_of, lvl),
            LAMBDA a1 :
        Let(resolve_loop(a1, cls, s, lvl), LAMBDA a2 :
            [learned |-> build_learned(a2.seen, s.assignment, nv, 1, <<>>),
             backtrack_level |-> backtrack_level(a2.seen, s.level_of, lvl),
             seen |-> a2.seen, counter |-> a2.counter, counter0 |-> a1.counter,
             marked0 |-> Cardinality(marked_at(a1.seen, s.level_of, lvl)),
             steps |-> a2.steps]))

(***************************************************************************)
(* main (lines 448-477) and solve (lines 245-260).                         *)
(***************************************************************************)
\* Before parse_dimacs the solver is the zero-initialised static of line 69.
Init ==
    /\ input \in Inputs
    /\ pc = "parse"
    /\ num_vars = 0
    /\ clauses = <<>>
    /\ assignment = <<>>
    /\ level_of = <<>>
    /\ reason = <<>>
    /\ trail = <<>>
    /\ level = 0
    /\ conflict = -1
    /\ bt = 0
    /\ result = 0
    /\ hist = [op |-> "init", prev |-> "init", top0 |-> 0, decisions |-> 0,
               analyses |-> <<>>]

\* main, line 457: parse_dimacs allocates the arrays at the problem line
\* (lines 317-329; level_of is calloc'ed) and stores the clause lines.
Main_parse ==
    /\ pc = "parse"
    /\ num_vars' = input.nv
    /\ clauses' = parse_dimacs(input)
    /\ assignment' = [i \in 0..input.nv |-> UNASSIGNED]
    /\ level_of' = [i \in 0..input.nv |-> 0]
    /\ reason' = [i \in 0..input.nv |-> -1]
    /\ trail' = <<>>
    /\ pc' = "solve"
    /\ hist' = [hist EXCEPT !.op = "parse", !.prev = hist.op]
    /\ UNCHANGED <<input, level, conflict, bt, result>>

\* Line 246.
Solve_begin ==
    /\ pc = "solve"
    /\ level' = 0
    /\ pc' = "propagate"
    /\ hist' = [hist EXCEPT !.op = "begin", !.prev = hist.op]
    /\ UNCHANGED <<input, num_vars, clauses, assignment, level_of, reason,
                   trail, conflict, bt, result>>

\* Line 248.
Solve_propagate ==
    /\ pc = "propagate"
    /\ \E r \in {propagate(clauses, State, level)} :
        /\ assignment' = r.state.assignment
        /\ level_of' = r.state.level_of
        /\ reason' = r.state.reason
        /\ trail' = r.state.trail
        /\ conflict' = r.ret
    /\ pc' = "branch"
    /\ hist' = [hist EXCEPT !.op = "propagate", !.prev = hist.op, !.top0 = trail_top]
    /\ UNCHANGED <<input, num_vars, clauses, level, bt, result>>

\* Lines 249-250.
Solve_unsat ==
    /\ pc = "branch"
    /\ conflict >= 0
    /\ level = 0
    /\ result' = UNSAT
    /\ pc' = "done"
    /\ hist' = [hist EXCEPT !.op = "unsat", !.prev = hist.op]
    /\ UNCHANGED <<input, num_vars, clauses, assignment, level_of, reason,
                   trail, level, conflict, bt>>

\* Line 251: analyze adds the learned clause (line 237) and returns bt.
Solve_analyze ==
    /\ pc = "branch"
    /\ conflict >= 0
    /\ level # 0
    /\ Len(hist.analyses) < MaxConflicts
    /\ \E a \in {analyze(clauses, State, num_vars, level, conflict)} :
        /\ clauses' = add_clause(clauses, a.learned)
        /\ bt' = a.backtrack_level
        /\ hist' = [hist EXCEPT !.op = "analyze", !.prev = hist.op,
                      !.analyses = Append(@, [conflict |-> conflict,
                                              level |-> level,
                                              index |-> num_clauses,
                                              bt |-> a.backtrack_level,
                                              seen |-> a.seen,
                                              at_level |->
                                                {l \in Lits(num_vars) :
                                                   /\ absval(l) \in a.seen
                                                   /\ level_of[absval(l)] = level
                                                   /\ lit_value(assignment, l) = 1},
                                              counter0 |-> a.counter0,
                                              marked0 |-> a.marked0,
                                              counter |-> a.counter,
                                              steps |-> a.steps])]
    /\ pc' = "backtrack"
    /\ UNCHANGED <<input, num_vars, assignment, level_of, reason, trail,
                   level, conflict, result>>

\* Lines 252-253.
Solve_backtrack ==
    /\ pc = "backtrack"
    /\ \E s \in {backtrack(State, bt)} :
        /\ assignment' = s.assignment
        /\ level_of' = s.level_of
        /\ reason' = s.reason
        /\ trail' = s.trail
    /\ level' = bt
    /\ pc' = "propagate"
    /\ hist' = [hist EXCEPT !.op = "backtrack", !.prev = hist.op]
    /\ UNCHANGED <<input, num_vars, clauses, conflict, bt, result>>

\* Lines 255-258 without `solver.level++`.
Solve_decide_same_level ==
    /\ pc = "branch"
    /\ conflict < 0
    /\ LET var == decide(num_vars, assignment) IN
        /\ var # 0
        /\ LET s == assign(State, var, level, -1) IN
            /\ assignment' = s.assignment
            /\ level_of' = s.level_of
            /\ reason' = s.reason
            /\ trail' = s.trail
    /\ pc' = "propagate"
    /\ hist' = [hist EXCEPT !.op = "decide", !.prev = hist.op, !.decisions = @ + 1]
    /\ UNCHANGED <<input, num_vars, clauses, level, conflict, bt, result>>

\* Lines 255-258.
Solve_decide ==
    /\ pc = "branch"
    /\ conflict < 0
    /\ LET var == decide(num_vars, assignment) IN
        /\ var # 0
        /\ LET s == assign(State, var, level + 1, -1) IN
            /\ assignment' = s.assignment
            /\ level_of' = s.level_of
            /\ reason' = s.reason
            /\ trail' = s.trail
    /\ level' = level + 1
    /\ pc' = "propagate"
    /\ hist' = [hist EXCEPT !.op = "decide", !.prev = hist.op, !.decisions = @ + 1]
    /\ UNCHANGED <<input, num_vars, clauses, conflict, bt, result>>

\* Lines 255-256.
Solve_sat ==
    /\ pc = "branch"
    /\ conflict < 0
    /\ decide(num_vars, assignment) = 0
    /\ result' = SAT
    /\ pc' = "done"
    /\ hist' = [hist EXCEPT !.op = "sat", !.prev = hist.op]
    /\ UNCHANGED <<input, num_vars, clauses, assignment, level_of, reason,
                   trail, level, conflict, bt>>

Next ==
    \/ Main_parse
    \/ Solve_begin
    \/ Solve_propagate
    \/ Solve_unsat
    \/ Solve_analyze
    \/ Solve_backtrack
    \/ Solve_decide
    \/ Solve_sat

Spec == Init /\ [][Next]_vars

\* solve() is one sequential loop: a step that can be taken is taken.
FairSpec == Spec /\ WF_vars(Next)

\* The bound on analyze() calls is never what stops a run.
CapNotReached == Len(hist.analyses) < MaxConflicts

(***************************************************************************)
(* Vocabulary of the properties.                                           *)
(***************************************************************************)
\* The total truth assignments of n variables.
Models(n) == [1..n -> {0, 1}]

LitTrue(m, l) == IF l > 0 THEN m[l] = 1 ELSE m[-l] = 0

ClauseTrue(m, c) == \E j \in 1..Len(c) : LitTrue(m, c[j])

SatisfiesAll(m, cls) == \A i \in 1..Len(cls) : ClauseTrue(m, cls[i])

\* The clauses stored by parse_dimacs come first in the store.
NumInitial == Len(parse_dimacs(input))

InitialClauses == SubSeq(clauses, 1, NumInitial)

\* Positions of clause c by value under the current assignment.
TruePositions(c) == {j \in 1..Len(c) : lit_value(assignment, c[j]) = 1}

UnassignedPositions(c) == {j \in 1..Len(c) : lit_value(assignment, c[j]) = UNASSIGNED}

Falsified(c) == \A j \in 1..Len(c) : lit_value(assignment, c[j]) = 0

HasEmptyLine == \E i \in 1..Len(input.lines) : input.lines[i] = <<>>

ContradictoryUnits ==
    \E i, k \in 1..Len(input.lines) :
        /\ Len(input.lines[i]) = 1
        /\ Len(input.lines[k]) = 1
        /\ input.lines[i][1] = -input.lines[k][1]

LastAnalysis == hist.analyses[Len(hist.analyses)]

(***************************************************************************)
(* C1.  For an input whose clause lines are all non-empty, when solve()    *)
(* returns SAT every variable in 1..num_vars is assigned and every clause  *)
(* line of the input has a literal that is True under the final assignment.*)
(***************************************************************************)
C1_SatIsModel ==
    (result = SAT /\ ~HasEmptyLine) =>
        /\ \A v \in 1..num_vars : assignment[v] # UNASSIGNED
        /\ \A i \in 1..Len(input.lines) :
               \E j \in 1..Len(input.lines[i]) :
                   lit_value(assignment, input.lines[i][j]) = 1

\* SAT is returned after at least one conflict was analysed.
C1_Witness ==
    /\ result = SAT
    /\ ~HasEmptyLine
    /\ Len(input.lines) >= 2
    /\ Len(hist.analyses) >= 1

(***************************************************************************)
(* C2.  When solve() returns UNSAT, no total assignment satisfies every    *)
(* clause line of the input.                                               *)
(***************************************************************************)
C2_UnsatIsUnsat ==
    result = UNSAT =>
        ~\E m \in Models(input.nv) : SatisfiesAll(m, input.lines)

(***************************************************************************)
(* C3.  The search loop terminates: every run of solve() reaches its return*)
(* (SAT or UNSAT).                                                         *)
(***************************************************************************)
C3_Terminates == <>(pc = "done" /\ result \in {SAT, UNSAT})

\* A run returned after two or more conflicts.
C3_Witness == pc = "done" /\ Len(hist.analyses) >= 2

(***************************************************************************)
(* C4.  If the input has an empty clause line, solve() returns UNSAT.      *)
(***************************************************************************)
C4_EmptyClauseUnsat == (pc = "done" /\ HasEmptyLine) => result = UNSAT

(***************************************************************************)
(* C5.  If the input has unit clauses {x} and {-x}, no decision is ever    *)
(* placed on the trail, analyze is never called, the level stays 0, and    *)
(* solve() returns UNSAT.                                                  *)
(***************************************************************************)
C5_UnitsContradict ==
    ContradictoryUnits =>
        /\ level = 0
        /\ hist.decisions = 0
        /\ hist.analyses = <<>>
        /\ \A v \in 1..num_vars :
               assignment[v] # UNASSIGNED => reason[v] # -1
        /\ pc = "branch" => conflict >= 0
        /\ pc = "done" => result = UNSAT

\* UNSAT was returned for contradictory units among other clauses.
C5_Witness ==
    /\ ContradictoryUnits
    /\ Len(input.lines) >= 3
    /\ pc = "done"
    /\ result = UNSAT

(***************************************************************************)
(* C6.  On return of propagate(): if it returned -1, every clause of the   *)
(* store has a True literal or at least 2 Unassigned literal positions; if *)
(* it returned a clause index, every literal of that clause is False.      *)
(***************************************************************************)
C6_PropagatePost ==
    hist.op = "propagate" =>
        /\ conflict = -1 =>
               \A i \in 1..num_clauses :
                   \/ TruePositions(clauses[i]) # {}
                   \/ Cardinality(UnassignedPositions(clauses[i])) >= 2
        /\ conflict # -1 =>
               /\ conflict \in 0..(num_clauses - 1)
               /\ Falsified(clauses[conflict + 1])

\* propagate returned -1 with a learned clause in the store, after at least
\* two assignments of its own.
C6_Witness ==
    /\ hist.op = "propagate"
    /\ conflict = -1
    /\ num_clauses > NumInitial
    /\ trail_top >= hist.top0 + 2

(***************************************************************************)
(* C7.  Every clause analyze() appended is a consequence of the initial    *)
(* clauses of the store: every total assignment that satisfies them all    *)
(* satisfies the learned clause.                                           *)
(***************************************************************************)
C7_LearnedEntailed ==
    \A i \in (NumInitial + 1)..num_clauses :
        \A m \in Models(num_vars) :
            SatisfiesAll(m, InitialClauses) => ClauseTrue(m, clauses[i])

(***************************************************************************)
(* C8.  In the propagate() call that follows analyze() and backtrack(B),   *)
(* the first assignment is the learned clause's literal of the one marked  *)
(* variable of the conflict level (the negation of its trail literal),     *)
(* made at level B with the learned clause's index as reason; nothing      *)
(* conflicts before it.                                                    *)
(***************************************************************************)
C8_AssertingFirst ==
    (hist.op = "propagate" /\ hist.prev = "backtrack") =>
        LET a == LastAnalysis IN
        /\ Cardinality(a.at_level) = 1
        /\ trail_top > hist.top0
        /\ \A u \in a.at_level :
               /\ trail[hist.top0 + 1] = -u
               /\ \E j \in 1..Len(clauses[a.index + 1]) :
                      clauses[a.index + 1][j] = -u
               /\ level_of[absval(u)] = a.bt
               /\ reason[absval(u)] = a.index

(***************************************************************************)
(* C9.  On return of analyze() at conflict level L, the learned clause has *)
(* exactly one literal whose variable is of level L, and every other       *)
(* literal's variable is of a level below L.                               *)
(***************************************************************************)
C9_OneAtLevel ==
    hist.op = "analyze" =>
        LET c == clauses[num_clauses] IN
        /\ Cardinality({j \in 1..Len(c) : level_of[absval(c[j])] = level}) = 1
        /\ \A j \in 1..Len(c) : level_of[absval(c[j])] <= level

(***************************************************************************)
(* C10.  The level B analyze() returns at conflict level L has 0 <= B < L  *)
(* and is the highest level below L among the variables of the learned     *)
(* clause, or 0 when it has none.                                          *)
(***************************************************************************)
C10_BackjumpLevel ==
    hist.op = "analyze" =>
        LET c == clauses[num_clauses]
            below == {l \in {level_of[absval(c[j])] : j \in 1..Len(c)} : l < level}
        IN  /\ 0 <= bt
            /\ bt < level
            /\ \A l \in below : l <= bt
            /\ bt = 0 \/ bt \in below

(***************************************************************************)
(* C11.  On return of analyze(), the learned clause has exactly one literal *)
(* for each variable of the final marked set, of polarity opposite to the  *)
(* variable's value, and every literal of it is False.                     *)
(***************************************************************************)
C11_LearnedComplete ==
    hist.op = "analyze" =>
        LET c == clauses[num_clauses]
            a == LastAnalysis
        IN  /\ Len(c) = Cardinality(a.seen)
            /\ {c[j] : j \in 1..Len(c)} =
                   {IF assignment[v] = 1 THEN -v ELSE v : v \in a.seen}
            /\ Falsified(c)

(***************************************************************************)
(* C12.  In every state a variable is assigned iff a literal of it is on   *)
(* the trail, that literal is True, no variable is on the trail twice, and *)
(* the trail is no longer than num_vars.                                   *)
(***************************************************************************)
C12_TrailIsAssignment ==
    /\ \A v \in 1..num_vars :
           assignment[v] # UNASSIGNED <=>
               \E i \in 1..trail_top : absval(trail[i]) = v
    /\ \A i \in 1..trail_top : lit_value(assignment, trail[i]) = 1
    /\ \A i, k \in 1..trail_top :
           absval(trail[i]) = absval(trail[k]) => i = k
    /\ trail_top <= num_vars

\* After a backjump that kept part of the trail, propagate assigned again.
C12_Witness ==
    /\ hist.op = "propagate"
    /\ hist.prev = "backtrack"
    /\ hist.top0 >= 1
    /\ trail_top > hist.top0

(***************************************************************************)
(* C13.  In every state the trail is ordered by non-decreasing decision    *)
(* level, and no trail entry is of a level above the current one.          *)
(***************************************************************************)
C13_TrailLevelsOrdered ==
    /\ \A i, k \in 1..trail_top :
           i < k => level_of[absval(trail[i])] <= level_of[absval(trail[k])]
    /\ \A i \in 1..trail_top : level_of[absval(trail[i])] <= level

\* After a backjump to a level above 0 that kept entries of two levels,
\* propagate assigned at the lower level.
C13_Witness ==
    /\ hist.op = "propagate"
    /\ hist.prev = "backtrack"
    /\ level >= 1
    /\ trail_top > hist.top0
    /\ \E i \in 1..hist.top0 : level_of[absval(trail[i])] < level

\* The 1-based trail position of an assigned variable.
TrailPos(v) == CHOOSE i \in 1..trail_top : absval(trail[i]) = v

(***************************************************************************)
(* C14.  In every state, for every assigned variable v whose reason is a   *)
(* clause index R: R is a clause of the store, exactly one literal of R is *)
(* of v and it is True, every other literal of R is False, and its         *)
(* variable is earlier on the trail than v.                                *)
(***************************************************************************)
C14_ReasonClauses ==
    \A v \in 1..num_vars :
        (assignment[v] # UNASSIGNED /\ reason[v] >= 0) =>
            /\ reason[v] < num_clauses
            /\ LET c == clauses[reason[v] + 1] IN
               /\ Cardinality({j \in 1..Len(c) : absval(c[j]) = v}) = 1
               /\ \A j \in 1..Len(c) :
                      IF absval(c[j]) = v
                      THEN lit_value(assignment, c[j]) = 1
                      ELSE /\ lit_value(assignment, c[j]) = 0
                           /\ TrailPos(absval(c[j])) < TrailPos(v)

\* A learned clause of two or more literals is the reason of a variable,
\* and so is an initial clause.
C14_Witness ==
    /\ \E v \in 1..num_vars :
           /\ assignment[v] # UNASSIGNED
           /\ reason[v] >= NumInitial
           /\ Len(clauses[reason[v] + 1]) >= 2
    /\ \E v \in 1..num_vars :
           /\ assignment[v] # UNASSIGNED
           /\ reason[v] >= 0
           /\ reason[v] < NumInitial
           /\ Len(clauses[reason[v] + 1]) >= 2

\* The assigned variables of level k.
AtLevel(k) ==
    {v \in 1..num_vars : assignment[v] # UNASSIGNED /\ level_of[v] = k}

(***************************************************************************)
(* C15.  In every state each level k in 1..level has exactly one variable  *)
(* with reason -1, the first of level k on the trail; every other assigned *)
(* variable, those of level 0 included, has a clause index as reason; the  *)
(* level is the number of trail literals with reason -1.                   *)
(***************************************************************************)
C15_OneDecisionPerLevel ==
    /\ \A v \in 1..num_vars :
           assignment[v] # UNASSIGNED => level_of[v] \in 0..level
    /\ \A v \in AtLevel(0) : reason[v] >= 0
    /\ \A k \in 1..level :
           LET dec == {v \in AtLevel(k) : reason[v] = -1} IN
           /\ Cardinality(dec) = 1
           /\ \A d \in dec : \A v \in AtLevel(k) : TrailPos(d) <= TrailPos(v)
           /\ \A v \in AtLevel(k) \ dec : reason[v] >= 0
    /\ level = Cardinality({i \in 1..trail_top : reason[absval(trail[i])] = -1})

\* After a backjump to level 2 or above, with a propagated variable at
\* the current level.
C15_Witness ==
    /\ hist.op = "propagate"
    /\ hist.prev = "backtrack"
    /\ level >= 2
    /\ \E v \in AtLevel(level) : reason[v] >= 0

\* No clause line of the input repeats a literal.
DistinctLiterals ==
    \A i \in 1..Len(input.lines) :
        \A j, k \in 1..Len(input.lines[i]) :
            input.lines[i][j] = input.lines[i][k] => j = k

(***************************************************************************)
(* C16.  For an input whose clause lines have distinct literals, no clause *)
(* of the store has all its literals False when propagate() has returned   *)
(* -1, right after the decision that follows, and right after the          *)
(* backtrack() that follows analyze().                                     *)
(***************************************************************************)
C16_NoFalsifiedOutsideConflict ==
    (/\ DistinctLiterals
     /\ \/ hist.op = "propagate" /\ conflict = -1
        \/ hist.op = "decide"
        \/ hist.op = "backtrack") =>
        \A i \in 1..num_clauses : ~Falsified(clauses[i])

\* The trail entries of a level at most l, in trail order.
KeptTrail(l) == SelectSeq(trail, LAMBDA x : level_of[absval(x)] <= l)

(***************************************************************************)
(* C17.  backtrack(L), L being solve()'s bt, removes from the trail exactly *)
(* the entries of a level above L and resets their variables to            *)
(* Unassigned, level 0 and reason -1; every other variable keeps its value,*)
(* level, reason and trail position; the clause store is unchanged and the *)
(* current level becomes L.                                                *)
(***************************************************************************)
C17_BacktrackFrame ==
    [][(pc = "backtrack" /\ pc' = "propagate") =>
          /\ trail' = KeptTrail(bt)
          /\ \A i \in 1..Len(trail') : trail'[i] = trail[i]
          /\ \A v \in 1..num_vars :
                 IF assignment[v] # UNASSIGNED /\ level_of[v] > bt
                 THEN /\ assignment'[v] = UNASSIGNED
                      /\ level_of'[v] = 0
                      /\ reason'[v] = -1
                 ELSE /\ assignment'[v] = assignment[v]
                      /\ level_of'[v] = level_of[v]
                      /\ reason'[v] = reason[v]
          /\ clauses' = clauses
          /\ level' = bt]_vars

\* backtrack jumped over two levels or more and kept two trail entries or
\* more.
C17_Witness ==
    /\ hist.op = "backtrack"
    /\ LastAnalysis.level >= level + 2
    /\ trail_top >= 2

\* The literals of a clause, as a set.
LitSet(c) == {c[j] : j \in 1..Len(c)}

(***************************************************************************)
(* C18.  For an input whose clause lines have distinct literals, the       *)
(* clause analyze() appended differs, as a set of literals, from every     *)
(* clause that was in the store before it.                                 *)
(***************************************************************************)
C18_LearnedIsNew ==
    (DistinctLiterals /\ hist.op = "analyze") =>
        \A i \in 1..(num_clauses - 1) :
            LitSet(clauses[i]) # LitSet(clauses[num_clauses])

(***************************************************************************)
(* C19.  Whenever solve() has called analyze(C): the level is above 0, all *)
(* literals of clause C are False, and C has a literal whose variable is   *)
(* of the current level (the counter after marking C is not 0).            *)
(***************************************************************************)
C19_AnalyzePrecondition ==
    hist.op = "analyze" =>
        LET a == LastAnalysis
            c == clauses[a.conflict + 1]
        IN  /\ level > 0
            /\ Falsified(c)
            /\ \E j \in 1..Len(c) : level_of[absval(c[j])] = level
            /\ a.counter0 >= 1

(***************************************************************************)
(* C20.  In every call of analyze(): the counter after marking the         *)
(* conflict clause is the number of marked variables of the current level; *)
(* every iteration of the resolution loop selects a variable at a trail    *)
(* index >= 0 that is assigned at the current level, and leaves the        *)
(* counter equal to the number of still-marked variables of that level;    *)
(* so it is on return.                                                     *)
(***************************************************************************)
C20_ResolutionLoop ==
    hist.op = "analyze" =>
        LET a == LastAnalysis IN
        /\ a.counter0 = a.marked0
        /\ \A k \in 1..Len(a.steps) :
               /\ a.steps[k].idx >= 0
               /\ a.steps[k].v \in 1..num_vars
               /\ trail[a.steps[k].idx + 1] \in {a.steps[k].v, -a.steps[k].v}
               /\ a.steps[k].lvl = level
               /\ a.steps[k].counter = a.steps[k].marked
        /\ a.counter = Cardinality(a.at_level)

\* An analysis of three or more resolution steps, one of which left the
\* counter above 1 (its reason clause brought in a variable of the level).
C20_Witness ==
    /\ hist.op = "analyze"
    /\ Len(LastAnalysis.steps) >= 3
    /\ \E k \in 2..Len(LastAnalysis.steps) :
           LastAnalysis.steps[k].counter >= 2

=============================================================================
